---- MODULE Spec2Model ----
(***************************************************************************)
(* EtherialSoul server: the conversation state machine                     *)
(* (StateOrchestrator), the block pacer (BufferManager), the timer service *)
(* (TimerManager) and the session store (UserSessionManager), driven by    *)
(* the socket handlers of index.js.                                        *)
(*                                                                         *)
(* The whole server state is gathered in one record (see State) so that    *)
(* every JavaScript method is an operator from state to state carrying the *)
(* method's name.  An action is one run of the event loop: a socket        *)
(* handler, a timeout callback or the continuation of an awaited LLM call, *)
(* executed up to its next await.                                          *)
(***************************************************************************)
EXTENDS Integers, Sequences, FiniteSets, TLC

VARIABLES
    conn,             \* per connection: "new", "live" (socket.connected) or "closed" (disconnected)
    userSockets,      \* StateOrchestrator.userSockets: connection ids with a registered socket
    sessions,         \* UserSessionManager.sessions: connection id -> session
    timers,           \* TimerManager.timers: connection id -> timer name -> timeout id (0: absent)
    sendingTimeouts,  \* BufferManager.sendingTimeouts: connection id -> timeout id (0: absent)
    timeouts,         \* the event loop's pending setTimeout callbacks
    calls,            \* LLM calls in flight (awaited updateBuffer / updateCheck)
    emitted,          \* per connection: the events the last step emitted on its socket, in order
    nMsg,             \* user_message events received so far
    nGen,             \* updateBuffer calls made so far
    nStop,            \* stop_ai_response / end_chat events received so far
    interruptAt,      \* history variable, per connection: the updateBuffer call whose buffer was seen
                      \* with needsUpdate and not waitingForGroup (0: none)
    completeOwed,     \* history variable, per connection: the last block of a buffer was emitted
                      \* on the live channel and no ai_complete has been emitted since
    retry             \* GeminiService: the retry loop of one updateBuffer call (its locals and the
                      \* backend requests it has made so far)

vars == <<conn, userSockets, sessions, timers, sendingTimeouts, timeouts, calls, emitted, nMsg, nGen, nStop, interruptAt, completeOwed, retry>>

----
\* Bounds of the model.

\* user_message events per run.
MaxMsgs == 2
\* updateBuffer calls per run.
MaxGen == 2
\* stop_ai_response / end_chat events per run.
MaxStops == 1

\* The connection of a run with a single client, and those of a run with two.
Solo == {"u1"}
Pair == {"u1", "u2"}

\* The connections of the run, named by the socket.id the transport gave them.
Users == DOMAIN conn

TimerTypes == {"typingIdle", "maxTyping", "groupDelay", "endUpdate"}

\* JavaScript null for buffer.currentGroup; group tags are 1..MaxGroup.
null == 0

\* Group sequences of the buffers the LLM returns: an empty buffer, a single
\* block, and a two-block group followed by a second group.
BufferShapes == {<<>>, <<1>>, <<1, 1, 2>>}

\* A response in which the second block has no numeric group.
InvalidShape == <<1, null>>

\* The responses the LLM gives to updateBuffer, before validation.
ResponseShapes == BufferShapes \cup {InvalidShape}

\* The validation of updateBuffer: every block carries a numeric group.
validResponse(shape) == \A i \in 1..Len(shape) : shape[i] # null

\* The blocks of the buffer returned by updateBuffer call number c with group
\* sequence shape: the text of a block names the call and the position.
BlocksOf(c, shape) == [i \in 1..Len(shape) |-> [text |-> <<c, i - 1>>, group |-> shape[i]]]

----
\* The server state as one value.

\* The state a step starts from: nothing emitted yet.
State ==
    [conn |-> conn, userSockets |-> userSockets, sessions |-> sessions, timers |-> timers,
     sendingTimeouts |-> sendingTimeouts, timeouts |-> timeouts, calls |-> calls,
     emitted |-> [u \in Users |-> <<>>], nGen |-> nGen]

\* The updateBuffer call that returned the buffer of u's session (0: no session
\* or an empty buffer).
BufferId(st, u) ==
    IF u \in DOMAIN st.sessions /\ st.sessions[u].buffer.blocks # <<>>
    THEN st.sessions[u].buffer.blocks[1].text[1]
    ELSE 0

\* The interrupt is requested in state st: needsUpdate && !waitingForGroup.
InterruptRequested(st, u) ==
    /\ u \in DOMAIN st.sessions
    /\ st.sessions[u].updateCheck.needsUpdate
    /\ ~st.sessions[u].updateCheck.waitingForGroup

\* The history variable after a step to state st: the buffer of st when the
\* interrupt is requested in st, the value before while that buffer stays.
Observed(st, u, before) ==
    IF InterruptRequested(st, u) THEN BufferId(st, u)
    ELSE IF BufferId(st, u) = before THEN before ELSE 0

\* The history variable after a step to state st that emitted the events of
\* st.emitted[u]: an ai_complete settles the debt, the emission of the last
\* block of the buffer opens it, a closed channel ends it.
Owed(st, u, before) ==
    LET evs == st.emitted[u]
    IN  IF st.conn[u] # "live" THEN FALSE
        ELSE IF \E i \in 1..Len(evs) : evs[i].type = "ai_complete" THEN FALSE
        ELSE IF \E i \in 1..Len(evs) : evs[i].type = "ai_block"
        THEN st.sessions[u].buffer.currentIndex >= Len(st.sessions[u].buffer.blocks)
        ELSE before

Becomes(st) ==
    /\ conn' = st.conn
    /\ userSockets' = st.userSockets
    /\ sessions' = st.sessions
    /\ timers' = st.timers
    /\ sendingTimeouts' = st.sendingTimeouts
    /\ timeouts' = st.timeouts
    /\ calls' = st.calls
    /\ emitted' = st.emitted
    /\ nGen' = st.nGen
    /\ interruptAt' = [u \in Users |-> Observed(st, u, interruptAt[u])]
    /\ completeOwed' = [u \in Users |-> Owed(st, u, completeOwed[u])]
    /\ retry' = retry

\* socket.connected
connected(st, u) == st.conn[u] = "live"

\* socket.emit(event, payload)
emit(st, u, ev) == [st EXCEPT !.emitted[u] = Append(@, ev)]

\* setTimeout returns an id no pending or remembered timeout has.
UsedIds(st) ==
    {t.id : t \in st.timeouts}
        \cup {st.timers[u][ty] : u \in Users, ty \in TimerTypes}
        \cup {st.sendingTimeouts[u] : u \in Users}

NewId(st) == CHOOSE i \in 1..(Cardinality(UsedIds(st)) + 1) : i \notin UsedIds(st)

setTimeout(st, id, u, ty, cb) ==
    [st EXCEPT !.timeouts = @ \cup {[id |-> id, user |-> u, timerType |-> ty, cb |-> cb]}]

clearTimeout(st, id) == [st EXCEPT !.timeouts = {t \in @ : t.id # id}]

----
\* UserSessionManager

NewSession ==
    [history |-> <<>>,
     buffer |-> [blocks |-> <<>>, currentIndex |-> 0, currentGroup |-> null,
                 isComplete |-> FALSE, isPaused |-> FALSE],
     typing |-> [isTyping |-> FALSE, shouldUseIdleTimer |-> FALSE],
     updateCheck |-> [needsUpdate |-> FALSE, waitingForGroup |-> FALSE],
     endUpdate |-> [timerActive |-> FALSE, userMessagedSinceLastEndUpdate |-> FALSE]]

\* getSession creates the session on first access: the state after the call.
getSession(st, u) ==
    IF u \in DOMAIN st.sessions THEN st
    ELSE [st EXCEPT !.sessions = @ @@ (u :> NewSession)]

\* addUserMessage keeping only the two latest entries of the history.
addUserMessage_capped(st, u, m) ==
    LET s == getSession(st, u)
        h == Append(s.sessions[u].history, [role |-> "user", content |-> m])
    IN  [s EXCEPT !.sessions[u].history = IF Len(h) > 2 THEN SubSeq(h, Len(h) - 1, Len(h)) ELSE h]

addUserMessage(st, u, m) ==
    [getSession(st, u) EXCEPT !.sessions[u].history = Append(@, [role |-> "user", content |-> m])]

addAIMessage(st, u, m) ==
    [getSession(st, u) EXCEPT !.sessions[u].history = Append(@, [role |-> "model", content |-> m])]

\* setBuffer leaving currentGroup null.
setBuffer_noGroup(st, u, blocks) ==
    [getSession(st, u) EXCEPT !.sessions[u].buffer =
        [blocks |-> blocks, currentIndex |-> 0, currentGroup |-> null,
         isComplete |-> FALSE, isPaused |-> FALSE]]

setBuffer(st, u, blocks) ==
    [getSession(st, u) EXCEPT !.sessions[u].buffer =
        [blocks |-> blocks, currentIndex |-> 0,
         currentGroup |-> IF Len(blocks) > 0 THEN blocks[1].group ELSE null,
         isComplete |-> FALSE, isPaused |-> FALSE]]

\* getNextBlock marks the buffer complete when the cursor is past the end:
\* the state after the call (the block is blocks[currentIndex] otherwise).
getNextBlock(st, u) ==
    LET s == getSession(st, u)
        b == s.sessions[u].buffer
    IN  IF b.currentIndex >= Len(b.blocks)
        THEN [s EXCEPT !.sessions[u].buffer.isComplete = TRUE]
        ELSE s

\* advanceBlock moving the cursor two blocks ahead.
advanceBlock_skip(st, u) ==
    LET s == getSession(st, u)
        b == s.sessions[u].buffer
        i == b.currentIndex + 2
    IN  IF i < Len(b.blocks)
        THEN [s EXCEPT !.sessions[u].buffer.currentIndex = i,
                       !.sessions[u].buffer.currentGroup = b.blocks[i + 1].group]
        ELSE [s EXCEPT !.sessions[u].buffer.currentIndex = i,
                       !.sessions[u].buffer.isComplete = TRUE,
                       !.sessions[u].buffer.currentGroup = null]

\* advanceBlock that does not mark the buffer complete at the end.
advanceBlock_noComplete(st, u) ==
    LET s == getSession(st, u)
        b == s.sessions[u].buffer
        i == b.currentIndex + 1
    IN  IF i < Len(b.blocks)
        THEN [s EXCEPT !.sessions[u].buffer.currentIndex = i,
                       !.sessions[u].buffer.currentGroup = b.blocks[i + 1].group]
        ELSE [s EXCEPT !.sessions[u].buffer.currentIndex = i,
                       !.sessions[u].buffer.currentGroup = null]

advanceBlock(st, u) ==
    LET s == getSession(st, u)
        b == s.sessions[u].buffer
        i == b.currentIndex + 1
    IN  IF i < Len(b.blocks)
        THEN [s EXCEPT !.sessions[u].buffer.currentIndex = i,
                       !.sessions[u].buffer.currentGroup = b.blocks[i + 1].group]
        ELSE [s EXCEPT !.sessions[u].buffer.currentIndex = i,
                       !.sessions[u].buffer.isComplete = TRUE,
                       !.sessions[u].buffer.currentGroup = null]

\* The value isCurrentGroupComplete returns for a buffer.
isCurrentGroupComplete(b) ==
    \/ b.isComplete
    \/ b.currentIndex >= Len(b.blocks)
    \/ ~ \E i \in b.currentIndex..(Len(b.blocks) - 1) : b.blocks[i + 1].group = b.currentGroup

resumeBuffer(st, u) == [getSession(st, u) EXCEPT !.sessions[u].buffer.isPaused = FALSE]

markBufferComplete(st, u) == [getSession(st, u) EXCEPT !.sessions[u].buffer.isComplete = TRUE]

setTypingState(st, u, isTyping) == [getSession(st, u) EXCEPT !.sessions[u].typing.isTyping = isTyping]

enableIdleTimer(st, u) == [getSession(st, u) EXCEPT !.sessions[u].typing.shouldUseIdleTimer = TRUE]

disableIdleTimer(st, u) == [getSession(st, u) EXCEPT !.sessions[u].typing.shouldUseIdleTimer = FALSE]

setUpdateCheckNeeded(st, u, needed) == [getSession(st, u) EXCEPT !.sessions[u].updateCheck.needsUpdate = needed]

setWaitingForGroup(st, u, waiting) == [getSession(st, u) EXCEPT !.sessions[u].updateCheck.waitingForGroup = waiting]

setEndUpdateTimer(st, u, active) == [getSession(st, u) EXCEPT !.sessions[u].endUpdate.timerActive = active]

setUserMessagedSinceEndUpdate(st, u, messaged) ==
    [getSession(st, u) EXCEPT !.sessions[u].endUpdate.userMessagedSinceLastEndUpdate = messaged]

clearSession(st, u) == [st EXCEPT !.sessions = [v \in DOMAIN @ \ {u} |-> @[v]]]

----
\* TimerManager

_clearTimer(st, u, ty) ==
    IF st.timers[u][ty] # 0
    THEN [clearTimeout(st, st.timers[u][ty]) EXCEPT !.timers[u][ty] = 0]
    ELSE st

\* _setTimer without clearing the timer that exists.
_setTimer_noClear(st, u, ty, cb) ==
    LET id == NewId(st)
    IN  [setTimeout(st, id, u, ty, cb) EXCEPT !.timers[u][ty] = id]

_setTimer(st, u, ty, cb) ==
    LET s == _clearTimer(st, u, ty)
        id == NewId(s)
    IN  [setTimeout(s, id, u, ty, cb) EXCEPT !.timers[u][ty] = id]

\* cancelTypingTimers clearing the maxTyping timer only.
cancelTypingTimers_maxOnly(st, u) == _clearTimer(st, u, "maxTyping")

cancelTypingTimers(st, u) == _clearTimer(_clearTimer(st, u, "typingIdle"), u, "maxTyping")

cancelEndUpdateTimer(st, u) == _clearTimer(st, u, "endUpdate")

cancelGroupDelayTimer(st, u) == _clearTimer(st, u, "groupDelay")

cancelAllTimers(st, u) ==
    _clearTimer(_clearTimer(_clearTimer(_clearTimer(st, u, "typingIdle"), u, "maxTyping"), u, "groupDelay"), u, "endUpdate")

isTimerActive(st, u, ty) == st.timers[u][ty] # 0

----
\* BufferManager

\* stopSending forgetting the timeout without clearing it.
stopSending_noClear(st, u) == [st EXCEPT !.sendingTimeouts[u] = 0]

\* stopSending emitting ai_complete when no step is pending.
stopSending_notify(st, u) ==
    IF st.sendingTimeouts[u] # 0
    THEN [clearTimeout(st, st.sendingTimeouts[u]) EXCEPT !.sendingTimeouts[u] = 0]
    ELSE [st EXCEPT !.emitted[u] = Append(@, [type |-> "ai_complete", text |-> <<>>, group |-> null])]

stopSending(st, u) ==
    IF st.sendingTimeouts[u] # 0
    THEN [clearTimeout(st, st.sendingTimeouts[u]) EXCEPT !.sendingTimeouts[u] = 0]
    ELSE st

isSending(st, u) == st.sendingTimeouts[u] # 0

----
\* StateOrchestrator: the flows started from the pacer's callbacks

Ev(type) == [type |-> type, text |-> <<>>, group |-> null]

registerSocket(st, u) == [st EXCEPT !.userSockets = @ \cup {u}]

\* getSocket returns a socket exactly when one is registered.
getSocket(st, u) == u \in st.userSockets

_startGroupDelayFlow(st, u) == _setTimer(st, u, "groupDelay", "groupDelay")

_handleGroupComplete(st, u) ==
    LET s == getSession(st, u)
        uc == s.sessions[u].updateCheck
    IN  IF uc.needsUpdate /\ uc.waitingForGroup
        THEN _startGroupDelayFlow(setWaitingForGroup(s, u, FALSE), u)
        ELSE s

\* _handleBufferComplete starting the endUpdate timer without looking at
\* userMessagedSinceLastEndUpdate.
_handleBufferComplete_ungated(st, u) ==
    LET s0 == IF getSocket(st, u) THEN emit(st, u, Ev("ai_complete")) ELSE st
        s == getSession(s0, u)
    IN  IF s.sessions[u].updateCheck.needsUpdate
        THEN _startGroupDelayFlow(s, u)
        ELSE _setTimer(setEndUpdateTimer(s, u, TRUE), u, "endUpdate", "endUpdate")

_handleBufferComplete(st, u) ==
    LET s0 == IF getSocket(st, u) THEN emit(st, u, Ev("ai_complete")) ELSE st
        s == getSession(s0, u)
    IN  IF s.sessions[u].updateCheck.needsUpdate
        THEN _startGroupDelayFlow(s, u)
        ELSE IF s.sessions[u].endUpdate.userMessagedSinceLastEndUpdate
             THEN _setTimer(setEndUpdateTimer(s, u, TRUE), u, "endUpdate", "endUpdate")
             ELSE s

----
\* BufferManager: the emission step

\* The delay in milliseconds after which _sendNextBlock schedules the step
\* that follows a block: Math.max(block.typingTime * 1000, 1000).
delay(typingTime) == IF typingTime * 1000 > 1000 THEN typingTime * 1000 ELSE 1000

\* The emission of a block without its entry in the history.
EmitBlock_noHistory(st, u) ==
    LET b == st.sessions[u].buffer
        block == b.blocks[b.currentIndex + 1]
        previousGroup == b.currentGroup
        s1 == emit(st, u, [type |-> "ai_block", text |-> block.text, group |-> block.group])
        s2 == advanceBlock(s1, u)
        newGroup == s2.sessions[u].buffer.currentGroup
    IN  IF previousGroup # newGroup THEN _handleGroupComplete(s2, u) ELSE s2

\* The state after the step has emitted the block at the cursor, before the
\* next step is scheduled.
EmitBlock(st, u) ==
    LET b == st.sessions[u].buffer
        block == b.blocks[b.currentIndex + 1]
        previousGroup == b.currentGroup
        s1 == emit(st, u, [type |-> "ai_block", text |-> block.text, group |-> block.group])
        s2 == advanceBlock(addAIMessage(s1, u, block.text), u)
        newGroup == s2.sessions[u].buffer.currentGroup
    IN  IF previousGroup # newGroup THEN _handleGroupComplete(s2, u) ELSE s2

\* _sendNextBlock without the test of socket.connected.
_sendNextBlock_unchecked(st, u) ==
    LET s == getSession(st, u)
        uc == s.sessions[u].updateCheck
        s1 == getNextBlock(s, u)
        b == s1.sessions[u].buffer
    IN  IF s.sessions[u].buffer.isPaused THEN s
        ELSE IF uc.needsUpdate /\ ~uc.waitingForGroup
        THEN [s EXCEPT !.sendingTimeouts[u] = 0]
        ELSE IF b.currentIndex >= Len(b.blocks)
        THEN _handleBufferComplete([s1 EXCEPT !.sendingTimeouts[u] = 0], u)
        ELSE LET s2 == EmitBlock(s1, u)
                 id == NewId(s2)
             IN  [setTimeout(s2, id, u, "sendNext", "sendNext") EXCEPT !.sendingTimeouts[u] = id]

_sendNextBlock(st, u) ==
    IF ~connected(st, u) THEN stopSending(st, u)
    ELSE LET s == getSession(st, u)
             uc == s.sessions[u].updateCheck
             s1 == getNextBlock(s, u)
             b == s1.sessions[u].buffer
         IN  IF s.sessions[u].buffer.isPaused THEN s
             ELSE IF uc.needsUpdate /\ ~uc.waitingForGroup
             THEN [s EXCEPT !.sendingTimeouts[u] = 0]
             ELSE IF b.currentIndex >= Len(b.blocks)
             THEN _handleBufferComplete([s1 EXCEPT !.sendingTimeouts[u] = 0], u)
             ELSE LET s2 == EmitBlock(s1, u)
                      id == NewId(s2)
                  IN  [setTimeout(s2, id, u, "sendNext", "sendNext") EXCEPT !.sendingTimeouts[u] = id]

\* startSendingBuffer scheduling its first step instead of running it.
startSendingBuffer_delayed(st, u) ==
    IF ~connected(st, u) THEN st
    ELSE LET s == resumeBuffer(stopSending(st, u), u)
             id == NewId(s)
         IN  [setTimeout(s, id, u, "sendNext", "sendNext") EXCEPT !.sendingTimeouts[u] = id]

\* startSendingBuffer without cancelling the sending process that exists.
startSendingBuffer_noStop(st, u) ==
    IF ~connected(st, u) THEN st
    ELSE _sendNextBlock(resumeBuffer(st, u), u)

startSendingBuffer(st, u) ==
    IF ~connected(st, u) THEN st
    ELSE _sendNextBlock(resumeBuffer(stopSending(st, u), u), u)

cleanupBuffer(st, u) == stopSending(st, u)

----
\* StateOrchestrator

\* triggerUpdateBuffer taking the whole buffer as pendingBlocks.
triggerUpdateBuffer_allBlocks(st, u, from) ==
    LET s == getSession(stopSending(cancelAllTimers(st, u), u), u)
        b == s.sessions[u].buffer
    IN  [s EXCEPT !.nGen = @ + 1,
                  !.calls = @ \cup {[kind |-> "updateBuffer", user |-> u, id |-> s.nGen + 1, from |-> from,
                                     blocks |-> b.blocks, currentIndex |-> 0]}]

\* triggerUpdateBuffer up to its await: the updateBuffer call is in flight;
\* from names the caller (the message handler or a timer callback).
triggerUpdateBuffer(st, u, from) ==
    LET s == getSession(stopSending(cancelAllTimers(st, u), u), u)
        b == s.sessions[u].buffer
        pendingBlocks == SubSeq(b.blocks, b.currentIndex + 1, Len(b.blocks))
    IN  [s EXCEPT !.nGen = @ + 1,
                  !.calls = @ \cup {[kind |-> "updateBuffer", user |-> u, id |-> s.nGen + 1, from |-> from,
                                     blocks |-> pendingBlocks, currentIndex |-> 0]}]

\* triggerUpdateBuffer after the await, starting the pacer before the new
\* buffer is installed.
updateBufferInstalled_startFirst(st, u, newBlocks) ==
    LET s == IF getSocket(st, u) THEN startSendingBuffer(st, u) ELSE st
    IN  setWaitingForGroup(setUpdateCheckNeeded(setBuffer(s, u, newBlocks), u, FALSE), u, FALSE)

\* triggerUpdateBuffer after the await, when updateBuffer returned newBlocks.
updateBufferInstalled(st, u, newBlocks) ==
    LET s == setWaitingForGroup(setUpdateCheckNeeded(setBuffer(st, u, newBlocks), u, FALSE), u, FALSE)
    IN  IF getSocket(s, u) THEN startSendingBuffer(s, u) ELSE s

\* The catch emitting ai_complete after the error.
updateBufferFailed_complete(st, u) ==
    IF getSocket(st, u) THEN emit(emit(st, u, Ev("error")), u, Ev("ai_complete")) ELSE st

\* The catch marking the buffer complete.
updateBufferFailed_markComplete(st, u) ==
    markBufferComplete(IF getSocket(st, u) THEN emit(st, u, Ev("error")) ELSE st, u)

\* The catch installing an empty buffer.
updateBufferFailed_reset(st, u) ==
    setBuffer(IF getSocket(st, u) THEN emit(st, u, Ev("error")) ELSE st, u, <<>>)

\* triggerUpdateBuffer's catch, when updateBuffer threw.
updateBufferFailed(st, u) ==
    IF getSocket(st, u) THEN emit(st, u, Ev("error")) ELSE st

\* triggerUpdateCheck up to its await: the updateCheck call made for message
\* m is in flight.
triggerUpdateCheck(st, u, m) ==
    LET s == getSession(st, u)
        b == s.sessions[u].buffer
    IN  [s EXCEPT !.calls = @ \cup {[kind |-> "updateCheck", user |-> u, id |-> m, from |-> "userMessage",
                                     blocks |-> b.blocks, currentIndex |-> b.currentIndex]}]

\* The negative branch of triggerUpdateCheck stopping the pacer as well.
updateCheckDone_stopOnNo(st, u, needsUpdate) ==
    IF needsUpdate
    THEN LET s == setUpdateCheckNeeded(st, u, TRUE)
         IN  IF isCurrentGroupComplete(s.sessions[u].buffer)
             THEN _startGroupDelayFlow(stopSending(s, u), u)
             ELSE setWaitingForGroup(s, u, TRUE)
    ELSE stopSending(setUpdateCheckNeeded(st, u, FALSE), u)

\* triggerUpdateCheck after the await, when updateCheck returned needsUpdate.
updateCheckDone(st, u, needsUpdate) ==
    IF needsUpdate
    THEN LET s == setUpdateCheckNeeded(st, u, TRUE)
         IN  IF isCurrentGroupComplete(s.sessions[u].buffer)
             THEN _startGroupDelayFlow(stopSending(s, u), u)
             ELSE setWaitingForGroup(s, u, TRUE)
    ELSE setUpdateCheckNeeded(st, u, FALSE)

\* handleUserMessage leaving the idle-timer flag and the endUpdate flag as
\* they were.
handleUserMessage_keepFlags(st, u, m) ==
    LET s1 == setUserMessagedSinceEndUpdate(addUserMessage(registerSocket(st, u), u, m), u, TRUE)
        s2 == setTypingState(cancelTypingTimers(s1, u), u, FALSE)
        s3 == cancelEndUpdateTimer(s2, u)
    IN  IF isSending(s3, u) /\ ~s3.sessions[u].buffer.isComplete
        THEN triggerUpdateCheck(s3, u, m)
        ELSE triggerUpdateBuffer(s3, u, "userMessage")

\* handleUserMessage up to the LLM call it awaits.
handleUserMessage(st, u, m) ==
    LET s1 == setUserMessagedSinceEndUpdate(addUserMessage(registerSocket(st, u), u, m), u, TRUE)
        s2 == disableIdleTimer(setTypingState(cancelTypingTimers(s1, u), u, FALSE), u)
        s3 == setEndUpdateTimer(cancelEndUpdateTimer(s2, u), u, FALSE)
    IN  IF isSending(s3, u) /\ ~s3.sessions[u].buffer.isComplete
        THEN triggerUpdateCheck(s3, u, m)
        ELSE triggerUpdateBuffer(s3, u, "userMessage")

handleTypingStatus(st, u, isTyping) ==
    LET s1 == setTypingState(registerSocket(st, u), u, isTyping)
    IN  IF isTyping
        THEN LET s2 == cancelGroupDelayTimer(cancelTypingTimers(s1, u), u)
                 s3 == IF s2.sessions[u].endUpdate.timerActive
                       THEN enableIdleTimer(setEndUpdateTimer(cancelEndUpdateTimer(s2, u), u, FALSE), u)
                       ELSE s2
             IN  _setTimer(s3, u, "maxTyping", "maxTyping")
        ELSE LET s2 == cancelTypingTimers(s1, u)
             IN  IF s2.sessions[u].typing.shouldUseIdleTimer
                 THEN _setTimer(s2, u, "typingIdle", "typingIdle")
                 ELSE s2

\* The maxTyping callback without the reset of userMessagedSinceLastEndUpdate.
maxTypingCallback_keepFlag(st, u) == triggerUpdateBuffer(st, u, "maxTyping")

\* The callback of the maxTyping timer (handleTypingStatus).
maxTypingCallback(st, u) ==
    triggerUpdateBuffer(setUserMessagedSinceEndUpdate(st, u, FALSE), u, "maxTyping")

\* The typingIdle callback without the reset of userMessagedSinceLastEndUpdate.
typingIdleCallback_keepFlag(st, u) ==
    triggerUpdateBuffer(disableIdleTimer(st, u), u, "typingIdle")

\* The callback of the typingIdle timer started by handleTypingStatus.
typingIdleCallback(st, u) ==
    triggerUpdateBuffer(setUserMessagedSinceEndUpdate(disableIdleTimer(st, u), u, FALSE), u, "typingIdle")

\* The callback of the typingIdle timer started by the groupDelay callback.
idleAfterGroupDelayCallback(st, u) ==
    triggerUpdateBuffer(setUserMessagedSinceEndUpdate(st, u, FALSE), u, "idleAfterGroupDelay")

\* The callback of the endUpdate timer (_handleBufferComplete).
endUpdateCallback(st, u) ==
    triggerUpdateBuffer(setUserMessagedSinceEndUpdate(st, u, FALSE), u, "endUpdate")

\* The callback of the groupDelay timer (_startGroupDelayFlow).
groupDelayCallback(st, u) ==
    LET s == getSession(st, u)
    IN  IF s.sessions[u].typing.isTyping
        THEN enableIdleTimer(s, u)
        ELSE _setTimer(s, u, "typingIdle", "idleAfterGroupDelay")

\* stopAIResponse without cancelling the timers.
stopAIResponse_keepTimers(st, u) ==
    emit(markBufferComplete(stopSending(st, u), u), u, Ev("ai_complete"))

stopAIResponse(st, u) ==
    emit(markBufferComplete(stopSending(cancelAllTimers(st, u), u), u), u, Ev("ai_complete"))

\* cleanup that leaves the socket registered.
cleanup_keepSocket(st, u) == clearSession(cleanupBuffer(cancelAllTimers(st, u), u), u)

cleanup(st, u) ==
    LET s == clearSession(cleanupBuffer(cancelAllTimers(st, u), u), u)
    IN  [s EXCEPT !.userSockets = @ \ {u}]

----
\* GeminiService: the backend requests of one updateBuffer call.

\* The values of GEMINI_MAX_RETRIES the runs are made with (3 when unset).
AttemptLimits == 0..3

\* The phrases of an error message that _isRetryableError looks for.
RetryablePhrases ==
    {"overloaded", "timeout", "temporarily", "unavailable", "rate limit", "429", "503", "502", "504"}

\* An Error: the phrases of its message, and whether it carries a response
\* whose promptFeedback has a blockReason.
Error(phrases, isBlocked) == [message |-> phrases, blocked |-> isBlocked]
NoError == Error({}, FALSE)

\* What one generateContent request can come to: a response whose text is a
\* valid list of blocks, JSON of another structure, no JSON at all or empty,
\* with or without a blockReason, or a thrown error.
Responses ==
    {[thrown |-> FALSE, text |-> t, error |-> Error({}, b)] :
        t \in {"blocks", "json", "prose", ""}, b \in BOOLEAN}
Failures ==
    {[thrown |-> TRUE, text |-> "", error |-> Error(m, b)] :
        m \in {{"503", "unavailable", "overloaded"}, {"429"}, {"api key not valid"}},
        b \in BOOLEAN}
Outcomes ==
    {o \in Responses : o.error.blocked => o.text = ""} \cup Failures

\* The retry loop while no updateBuffer call is inside it.
NoRequest ==
    [status |-> "idle", maxAttempts |-> 0, attempt |-> 0, requests |-> <<>>,
     lastError |-> NoError, error |-> NoError, text |-> ""]

----
\* The event loop: socket handlers (index.js), timeout callbacks and the
\* continuations of the awaited LLM calls.

\* The server after construction, before the connections in C are made.
InitOn(C) ==
    /\ conn = [u \in C |-> "new"]
    /\ userSockets = {}
    /\ sessions = [u \in {} |-> NewSession]
    /\ timers = [u \in C |-> [ty \in TimerTypes |-> 0]]
    /\ sendingTimeouts = [u \in C |-> 0]
    /\ timeouts = {}
    /\ calls = {}
    /\ emitted = [u \in C |-> <<>>]
    /\ nMsg = 0
    /\ nGen = 0
    /\ nStop = 0
    /\ interruptAt = [u \in C |-> 0]
    /\ completeOwed = [u \in C |-> FALSE]
    /\ retry = NoRequest

Init == InitOn(Solo)

\* A step to state st that starts no updateBuffer call beyond the bound.
BoundedBecomes(st) == st.nGen <= MaxGen /\ Becomes(st)

\* io.on('connection')
Connect(u) ==
    /\ conn[u] = "new"
    /\ Becomes(registerSocket([State EXCEPT !.conn[u] = "live"], u))
    /\ UNCHANGED <<nMsg, nStop>>

\* socket.on('user_message')
UserMessage(u) ==
    /\ conn[u] = "live"
    /\ nMsg < MaxMsgs
    /\ nMsg' = nMsg + 1
    /\ BoundedBecomes(handleUserMessage(emit(State, u, Ev("message_received")), u, nMsg + 1))
    /\ UNCHANGED nStop

\* socket.on('typing_status') with isTyping = true
TypingStart(u) ==
    /\ conn[u] = "live"
    /\ Becomes(handleTypingStatus(State, u, TRUE))
    /\ UNCHANGED <<nMsg, nStop>>

\* socket.on('typing_status') with isTyping = false
TypingStop(u) ==
    /\ conn[u] = "live"
    /\ Becomes(handleTypingStatus(State, u, FALSE))
    /\ UNCHANGED <<nMsg, nStop>>

\* socket.on('stop_ai_response')
Stop(u) ==
    /\ conn[u] = "live"
    /\ nStop < MaxStops
    /\ nStop' = nStop + 1
    /\ Becomes(stopAIResponse(State, u))
    /\ UNCHANGED nMsg

\* socket.on('end_chat')
EndChat(u) ==
    /\ conn[u] = "live"
    /\ nStop < MaxStops
    /\ nStop' = nStop + 1
    /\ Becomes(cleanup(stopAIResponse(State, u), u))
    /\ UNCHANGED nMsg

\* socket.on('disconnect'): the transport sets socket.connected to false and
\* runs the handler in the same synchronous step.
Disconnect(u) ==
    /\ conn[u] = "live"
    /\ Becomes(cleanup([State EXCEPT !.conn[u] = "closed"], u))
    /\ UNCHANGED <<nMsg, nStop>>

\* A pending timeout t leaves the event loop's queue; a TimerManager timeout
\* first deletes its entry (the wrapper in _setTimer).
Fired(st, t) ==
    IF t.timerType \in TimerTypes
    THEN [st EXCEPT !.timeouts = @ \ {t}, !.timers[t.user][t.timerType] = 0]
    ELSE [st EXCEPT !.timeouts = @ \ {t}]

\* The timeout of BufferManager._sendNextBlock fires.
SendNextFire(u) ==
    \E t \in timeouts :
        /\ t.user = u /\ t.cb = "sendNext"
        /\ Becomes(_sendNextBlock(Fired(State, t), u))
        /\ UNCHANGED <<nMsg, nStop>>

\* The maxTyping callback of handleTypingStatus.
MaxTypingFire(u) ==
    \E t \in timeouts :
        /\ t.user = u /\ t.cb = "maxTyping"
        /\ BoundedBecomes(maxTypingCallback(Fired(State, t), u))
        /\ UNCHANGED <<nMsg, nStop>>

\* The typingIdle callback of handleTypingStatus.
TypingIdleFire(u) ==
    \E t \in timeouts :
        /\ t.user = u /\ t.cb = "typingIdle"
        /\ BoundedBecomes(typingIdleCallback(Fired(State, t), u))
        /\ UNCHANGED <<nMsg, nStop>>

\* The groupDelay callback of _startGroupDelayFlow.
GroupDelayFire(u) ==
    \E t \in timeouts :
        /\ t.user = u /\ t.cb = "groupDelay"
        /\ Becomes(groupDelayCallback(Fired(State, t), u))
        /\ UNCHANGED <<nMsg, nStop>>

\* The typingIdle callback started by the groupDelay callback.
GroupIdleFire(u) ==
    \E t \in timeouts :
        /\ t.user = u /\ t.cb = "idleAfterGroupDelay"
        /\ BoundedBecomes(idleAfterGroupDelayCallback(Fired(State, t), u))
        /\ UNCHANGED <<nMsg, nStop>>

\* The endUpdate callback of _handleBufferComplete.
EndUpdateFire(u) ==
    \E t \in timeouts :
        /\ t.user = u /\ t.cb = "endUpdate"
        /\ BoundedBecomes(endUpdateCallback(Fired(State, t), u))
        /\ UNCHANGED <<nMsg, nStop>>

Returned(st, c) == [st EXCEPT !.calls = @ \ {c}]

\* An updateBuffer call returns validated blocks.
UpdateBufferReturn(u) ==
    \E c \in calls, shape \in ResponseShapes :
        /\ c.user = u /\ c.kind = "updateBuffer"
        /\ validResponse(shape)
        /\ Becomes(updateBufferInstalled(Returned(State, c), u, BlocksOf(c.id, shape)))
        /\ UNCHANGED <<nMsg, nStop>>

\* An updateBuffer call throws: the backend fails, or the response does not
\* pass the validation.
UpdateBufferThrow(u) ==
    \E c \in calls, shape \in ResponseShapes, backendFails \in BOOLEAN :
        /\ c.user = u /\ c.kind = "updateBuffer"
        /\ backendFails \/ ~validResponse(shape)
        /\ Becomes(updateBufferFailed(Returned(State, c), u))
        /\ UNCHANGED <<nMsg, nStop>>

\* What the evaluator model does with the prompt of updateCheck: it answers
\* YES or NO, or the request fails.
CheckOutcomes == {"YES", "NO", "error"}

\* The value updateCheck returns: whether the answer contains YES, false on
\* any error.
updateCheck(outcome) == outcome = "YES"

\* An updateCheck call settles with the given outcome.
UpdateCheckReturns(u, outcome) ==
    \E c \in calls :
        /\ c.user = u /\ c.kind = "updateCheck"
        /\ Becomes(updateCheckDone(Returned(State, c), u, updateCheck(outcome)))
        /\ UNCHANGED <<nMsg, nStop>>

UpdateCheckReturn(u) == \E outcome \in CheckOutcomes : UpdateCheckReturns(u, outcome)

Next ==
    \E u \in Solo :
        \/ Connect(u)
        \/ UserMessage(u)
        \/ TypingStart(u)
        \/ TypingStop(u)
        \/ Stop(u)
        \/ EndChat(u)
        \/ Disconnect(u)
        \/ SendNextFire(u)
        \/ MaxTypingFire(u)
        \/ TypingIdleFire(u)
        \/ GroupDelayFire(u)
        \/ GroupIdleFire(u)
        \/ EndUpdateFire(u)
        \/ UpdateBufferReturn(u)
        \/ UpdateBufferThrow(u)
        \/ UpdateCheckReturn(u)

Spec == Init /\ [][Next]_vars

----
\* GeminiService: the retry loop of updateBuffer.

_isRetryableError_any(error) == TRUE

_isRetryableError(error) == error.message \cap RetryablePhrases # {}

\* updateBuffer once _generateContentWithRetry has returned the text: empty
\* text, text that does not parse and blocks that do not validate throw.
parseResponse(r, text) ==
    IF text = "" THEN [r EXCEPT !.status = "thrown", !.error = Error({"empty response", "no JSON to parse"}, FALSE)]
    ELSE IF text = "prose" THEN [r EXCEPT !.status = "thrown", !.error = Error({"Failed to parse JSON"}, FALSE)]
    ELSE IF text = "json" THEN [r EXCEPT !.status = "thrown", !.error = Error({"Invalid response structure"}, FALSE)]
    ELSE [r EXCEPT !.status = "returned", !.text = text]

\* The catch clause of the loop body.
caught(r, error) ==
    LET r1 == [r EXCEPT !.lastError = error]
        retryable == _isRetryableError(error) \/ "empty response" \in error.message
    IN  IF error.blocked THEN [r1 EXCEPT !.status = "thrown", !.error = error]
        ELSE IF ~retryable \/ r.attempt = r.maxAttempts
        THEN [r1 EXCEPT !.status = "thrown", !.error = error]
        ELSE [r1 EXCEPT !.status = "sleeping"]

\* The head of the for loop: another request, or the throw after the loop.
loopHead(r) ==
    IF r.attempt <= r.maxAttempts
    THEN [r EXCEPT !.status = "requesting"]
    ELSE [r EXCEPT !.status = "thrown",
                   !.error = IF r.requests = <<>> THEN Error({"Gemini request failed"}, FALSE)
                             ELSE r.lastError]

\* One turn of the loop body of _generateContentWithRetry, from the moment the
\* awaited request settles with the outcome to the return, the throw or the
\* sleep; on a return updateBuffer goes on to parse the text.
_generateContentWithRetry(r, outcome) ==
    LET r1 == [r EXCEPT !.requests = Append(@, outcome)]
    IN  IF outcome.thrown THEN caught(r1, outcome.error)
        ELSE IF outcome.text = "" /\ ~outcome.error.blocked
        THEN caught(r1, Error({"empty response"}, FALSE))
        ELSE parseResponse(r1, outcome.text)

\* updateBuffer enters the loop with the configured number of attempts.
GenerateBuffer ==
    \E n \in AttemptLimits :
        /\ retry.status = "idle"
        /\ retry' = loopHead([NoRequest EXCEPT !.maxAttempts = n, !.attempt = 1])
        /\ UNCHANGED <<conn, userSockets, sessions, timers, sendingTimeouts, timeouts, calls,
                       emitted, nMsg, nGen, nStop, interruptAt, completeOwed>>

\* The awaited backend request settles.
RequestSettles ==
    \E outcome \in Outcomes :
        /\ retry.status = "requesting"
        /\ retry' = _generateContentWithRetry(retry, outcome)
        /\ UNCHANGED <<conn, userSockets, sessions, timers, sendingTimeouts, timeouts, calls,
                       emitted, nMsg, nGen, nStop, interruptAt, completeOwed>>

\* The backoff sleep ends and the loop goes round.
SleepEnds ==
    /\ retry.status = "sleeping"
    /\ retry' = loopHead([retry EXCEPT !.attempt = @ + 1])
    /\ UNCHANGED <<conn, userSockets, sessions, timers, sendingTimeouts, timeouts, calls,
                   emitted, nMsg, nGen, nStop, interruptAt, completeOwed>>

NextRetry == GenerateBuffer \/ RequestSettles \/ SleepEnds

\* Every backend request settles (the client library resolves or rejects the
\* promise) and every sleep's timeout fires.
SpecRetry == Init /\ [][NextRetry]_vars /\ WF_vars(RequestSettles) /\ WF_vars(SleepEnds)

----
\* The interrupt flow on a four-block buffer: the same server with a client
\* that neither stops, ends the chat nor disconnects, and an LLM that returns
\* two groups of two blocks.

LongShape == <<1, 1, 2, 2>>

UpdateBufferReturnLong(u) ==
    \E c \in calls :
        /\ c.user = u /\ c.kind = "updateBuffer"
        /\ Becomes(updateBufferInstalled(Returned(State, c), u, BlocksOf(c.id, LongShape)))
        /\ UNCHANGED <<nMsg, nStop>>

NextInterrupt ==
    \E u \in Solo :
        \/ Connect(u)
        \/ UserMessage(u)
        \/ TypingStart(u)
        \/ TypingStop(u)
        \/ SendNextFire(u)
        \/ MaxTypingFire(u)
        \/ TypingIdleFire(u)
        \/ GroupDelayFire(u)
        \/ GroupIdleFire(u)
        \/ EndUpdateFire(u)
        \/ UpdateBufferReturnLong(u)
        \/ UpdateCheckReturn(u)

SpecInterrupt == Init /\ [][NextInterrupt]_vars

----
----
\* Two connections.  The client of a connection may put any user id into the
\* payload of its events.

\* The session key taken from the payload of the event.
userId_fromPayload(socket, data) == data

\* The session key the handlers of a connection use: const userId = socket.id,
\* whatever the payload carries.
userId(socket, data) == socket

\* socket.on('user_message') on connection a, the payload carrying user id p
UserMessageAs(a, p) ==
    /\ conn[a] = "live"
    /\ nMsg < MaxMsgs
    /\ nMsg' = nMsg + 1
    /\ BoundedBecomes(handleUserMessage(emit(State, a, Ev("message_received")), userId(a, p), nMsg + 1))
    /\ UNCHANGED nStop

\* socket.on('typing_status') with isTyping = true on connection a, the
\* payload carrying user id p.  In the runs with two connections the client of
\* u1 is the one that reports typing, and it does so when it was not typing.
TypingAs(a, p) ==
    /\ a = "u1"
    /\ conn[a] = "live"
    /\ ~(a \in DOMAIN sessions /\ sessions[a].typing.isTyping)
    /\ Becomes(handleTypingStatus(State, userId(a, p), TRUE))
    /\ UNCHANGED <<nMsg, nStop>>

\* socket.on('stop_ai_response') on connection a, the payload carrying user id p
StopAs(a, p) ==
    /\ conn[a] = "live"
    /\ nStop < MaxStops
    /\ nStop' = nStop + 1
    /\ Becomes(stopAIResponse(State, userId(a, p)))
    /\ UNCHANGED nMsg

\* The events received on connection a.
ReceivedOn(a) == \E p \in Users : UserMessageAs(a, p) \/ TypingAs(a, p) \/ StopAs(a, p)

\* The connection and disconnection of a, the firings of its timers and the
\* results of its LLM calls (no typingIdle timer of handleTypingStatus: no
\* client reports that it stopped typing).
OwnStep(a) ==
    \/ Connect(a)
    \/ Disconnect(a)
    \/ SendNextFire(a)
    \/ MaxTypingFire(a)
    \/ GroupDelayFire(a)
    \/ GroupIdleFire(a)
    \/ EndUpdateFire(a)
    \/ UpdateBufferReturn(a)
    \/ UpdateCheckReturn(a)

NextPair ==
    \E a \in Pair :
        \/ Connect(a)
        \/ \E p \in Pair : UserMessageAs(a, p)
        \/ \E p \in Pair : TypingAs(a, p)
        \/ \E p \in Pair : StopAs(a, p)
        \/ Disconnect(a)
        \/ SendNextFire(a)
        \/ MaxTypingFire(a)
        \/ GroupDelayFire(a)
        \/ GroupIdleFire(a)
        \/ EndUpdateFire(a)
        \/ UpdateBufferReturn(a)
        \/ UpdateCheckReturn(a)

SpecPair == InitOn(Pair) /\ [][NextPair]_vars

----
\* Vocabulary of the properties.

\* The positions of the ai_block events in a sequence of emitted events.
AiBlocks(evs) == {i \in 1..Len(evs) : evs[i].type = "ai_block"}

\* The pacer's pending next-block timeouts of a connection.
PacerChains(u) == {t \in timeouts : t.user = u /\ t.timerType = "sendNext"}

\* userMessagedSinceLastEndUpdate of a connection in a session store (false
\* without a session, as in a new session).
Messaged(ss, u) == u \in DOMAIN ss /\ ss[u].endUpdate.userMessagedSinceLastEndUpdate

\* The cursor of buffer b is at a group boundary: nothing sent, nothing left,
\* or the last sent block and the first unsent block differ in group.
AtGroupBoundary(b) ==
    \/ b.currentIndex = 0
    \/ b.currentIndex >= Len(b.blocks)
    \/ b.blocks[b.currentIndex].group # b.blocks[b.currentIndex + 1].group

\* The history of a connection in a session store (empty without a session).
History(ss, u) == IF u \in DOMAIN ss THEN ss[u].history ELSE <<>>

\* h is a prefix of g.
IsPrefix(h, g) == Len(h) <= Len(g) /\ SubSeq(g, 1, Len(h)) = h

\* The contents of the model-role entries of a history, in order.
ModelTexts(h) ==
    LET m == SelectSeq(h, LAMBDA e : e.role = "model")
    IN  [i \in 1..Len(m) |-> m[i].content]

\* The texts of the ai_block events of a sequence of emitted events, in order.
BlockTexts(evs) ==
    LET m == SelectSeq(evs, LAMBDA e : e.type = "ai_block")
    IN  [i \in 1..Len(m) |-> m[i].text]

\* The pending timeouts of a connection's timer of a given name.
Scheduled(u, ty) == {t \in timeouts : t.user = u /\ t.timerType = ty}

\* The updateBuffer calls that return, and those that start, in a step.
Returning(u) == {c \in calls \ calls' : c.user = u /\ c.kind = "updateBuffer"}
Starting(u) == {c \in calls' \ calls : c.user = u /\ c.kind = "updateBuffer"}

\* The updateCheck calls that return in a step.
Checked(u) == {c \in calls \ calls' : c.user = u /\ c.kind = "updateCheck"}

----
\* C1: in every reachable state each connection has at most one pending
\* next-block timeout of the pacer, and it is the one BufferManager remembers
\* in sendingTimeouts (so that a later start or stop cancels it).
C1_AtMostOneChain ==
    \A u \in Users :
        /\ Cardinality(PacerChains(u)) <= 1
        /\ \A t \in PacerChains(u) : t.id = sendingTimeouts[u]

\* C1 witness: two user messages were handled before any block was sent (two
\* overlapping regenerations), both buffers were started, and a chain is pending.
C1_Witness ==
    \E u \in Users :
        /\ u \in DOMAIN sessions
        /\ Len(sessions[u].history) >= 4
        /\ sessions[u].history[1].role = "user"
        /\ sessions[u].history[2].role = "user"
        /\ sessions[u].history[3] = [role |-> "model", content |-> <<1, 0>>]
        /\ sessions[u].history[4] = [role |-> "model", content |-> <<2, 0>>]
        /\ PacerChains(u) # {}

\* C2: a step emits at most one ai_block; the block is the one at the cursor
\* of the session's buffer (of the buffer installed in that step, at cursor 0,
\* when the step installs one) and the cursor then points right after it; and
\* the cursor of a buffer moves only by such an emission.
C2_Step(u) ==
    LET evs == emitted'[u]
        old == IF u \in DOMAIN sessions THEN sessions[u].buffer ELSE NewSession.buffer
        new == IF u \in DOMAIN sessions' THEN sessions'[u].buffer ELSE NewSession.buffer
    IN  /\ Cardinality(AiBlocks(evs)) <= 1
        /\ \A i \in AiBlocks(evs) :
              /\ new.currentIndex \in 1..Len(new.blocks)
              /\ evs[i].text = new.blocks[new.currentIndex].text
              /\ evs[i].text[2] = new.currentIndex - 1
              /\ IF new.blocks = old.blocks
                 THEN new.currentIndex = old.currentIndex + 1
                 ELSE new.currentIndex = 1
        /\ (new.blocks = old.blocks /\ new.currentIndex # old.currentIndex) => AiBlocks(evs) # {}

C2_BlocksInCursorOrder == [][\A u \in Users : C2_Step(u)]_vars

\* C2 witness: the third block of a buffer has just been emitted after both
\* user messages were handled.
C2_Witness ==
    \E u \in Users :
        /\ nMsg = 2
        /\ \E i \in AiBlocks(emitted[u]) : emitted[u][i].text[2] = 2

\* C3: once needsUpdate && !waitingForGroup was seen for a buffer, no step
\* emits a further ai_block of that buffer.
C3_NoBlockAfterInterrupt ==
    [][\A u \in Users : \A i \in AiBlocks(emitted'[u]) : emitted'[u][i].text[1] # interruptAt[u]]_vars

\* C4: when the updateCheck of a message that arrived with the cursor at the
\* first block of a new group returns true, the cursor still being there and
\* the pacer sending, the step stops the pacer and starts the groupDelay timer.
C4_Step(u) ==
    LET b == sessions[u].buffer
    IN  ( /\ \E c \in Checked(u) : c.blocks = b.blocks /\ c.currentIndex = b.currentIndex
          /\ u \in DOMAIN sessions'
          /\ sessions'[u].updateCheck.needsUpdate
          /\ isSending(State, u)
          /\ b.currentIndex \in 1..(Len(b.blocks) - 1)
          /\ b.blocks[b.currentIndex].group # b.blocks[b.currentIndex + 1].group )
        => (sendingTimeouts'[u] = 0 /\ PacerChains(u)' = {} /\ timers'[u]["groupDelay"] # 0)

C4_StopsAtGroupStart == [][\A u \in Users : u \in DOMAIN sessions => C4_Step(u)]_vars

\* C5: when the typingIdle timer of the group-delay flow fires and its
\* regeneration stops a buffer that is being sent, the cursor is at a group
\* boundary.
C5_Step(u) ==
    ( /\ \E c \in Starting(u) : c.from = "idleAfterGroupDelay"
      /\ isSending(State, u)
      /\ u \in DOMAIN sessions )
    => AtGroupBoundary(sessions[u].buffer)

C5_CutAtGroupBoundary == [][\A u \in Users : C5_Step(u)]_vars

\* C6: in every state after the disconnect of a connection was handled, the
\* last step emitted nothing on its socket.
C6_NoEmissionAfterDisconnect ==
    \A u \in Users : conn[u] = "closed" => emitted[u] = <<>>

\* C6 witness: an updateBuffer call that was in flight at the disconnect has
\* returned afterwards (its blocks are in the store of the closed connection).
C6_Witness ==
    \E u \in Users : conn[u] = "closed" /\ BufferId(State, u) # 0

\* C7: after the disconnect of a connection was handled, the session store
\* holds no session for it.
C7_NoSessionAfterDisconnect ==
    \A u \in Users : conn[u] = "closed" => u \notin DOMAIN sessions

\* C8: when an updateBuffer call returns for a connection whose channel is
\* not live, the returned blocks are not installed as the session's buffer.
C8_Step(u) ==
    \A c \in Returning(u) :
        conn[u] # "live" => (u \in DOMAIN sessions' => sessions'[u].buffer.blocks = <<>>)

C8_DroppedWhenNotLive == [][\A u \in Users : C8_Step(u)]_vars

\* C9: (a) a step that starts the endUpdate timer leaves
\* userMessagedSinceLastEndUpdate true, and it was true before the step;
\* (b) the firing of the endUpdate timer finds the flag true and clears it;
\* (c) the flag turns from false to true only in the step that handles a
\* user message.
C9_Step(u) ==
    /\ (\E t \in timeouts' \ timeouts : t.user = u /\ t.cb = "endUpdate")
          => (Messaged(sessions, u) /\ Messaged(sessions', u))
    /\ (\E c \in Starting(u) : c.from = "endUpdate")
          => (Messaged(sessions, u) /\ ~Messaged(sessions', u))
    /\ (~Messaged(sessions, u) /\ Messaged(sessions', u)) => nMsg' = nMsg + 1

C9_EndUpdateNeedsMessage == [][\A u \in Users : C9_Step(u)]_vars

\* C9 witness: the endUpdate timer has fired and its regeneration is in flight.
C9_Witness ==
    \E c \in calls : c.kind = "updateBuffer" /\ c.from = "endUpdate"

\* C10: (a) a regeneration entered from a timer callback starts with
\* userMessagedSinceLastEndUpdate false; (b) the return of an updateBuffer
\* call never sets the flag; (c) a step that starts the endUpdate timer while
\* handling no user message found the flag already true.
C10_Step(u) ==
    /\ (\E c \in Starting(u) : c.from # "userMessage") => ~Messaged(sessions', u)
    /\ Returning(u) # {} => (Messaged(sessions', u) => Messaged(sessions, u))
    /\ ( /\ nMsg' = nMsg
         /\ \E t \in timeouts' \ timeouts : t.user = u /\ t.cb = "endUpdate" )
          => Messaged(sessions, u)

C10_TimerRegenerationKeepsFlagClear == [][\A u \in Users : C10_Step(u)]_vars

\* C10 witness: the buffer of a regeneration entered from a timer callback is
\* complete, nothing was said since, and no endUpdate timer runs.
C10_Witness ==
    \E u \in Users :
        /\ u \in DOMAIN sessions
        /\ conn[u] = "live"
        /\ nMsg = 0
        /\ nStop = 0
        /\ BufferId(State, u) # 0
        /\ sessions[u].buffer.isComplete
        /\ sendingTimeouts[u] = 0
        /\ timers[u]["endUpdate"] = 0

----
\* C11: while the ai_complete of a buffer whose last block was emitted on the
\* live channel is outstanding, no step emits an ai_block (which could only be
\* a block of a later buffer).
C11_CompleteBeforeNextBuffer ==
    [][\A u \in Users : completeOwed[u] => AiBlocks(emitted'[u]) = {}]_vars

\* C12 as stated: a step in which an updateBuffer call fails emits exactly one
\* error event and nothing else, and the session exists after it.
C12_FailureEmitsOneError ==
    [][\A u \in Users : UpdateBufferThrow(u) =>
          (emitted'[u] = <<Ev("error")>> /\ u \in DOMAIN sessions')]_vars

\* C12 amended: a step in which an updateBuffer call fails while the
\* connection's socket is registered emits exactly one error event and nothing
\* else, and the session exists after it; without a registered socket (after
\* the cleanup of end_chat or disconnect) the step emits nothing.
C12_Step(u) ==
    IF getSocket(State, u)
    THEN emitted'[u] = <<Ev("error")>> /\ u \in DOMAIN sessions'
    ELSE emitted'[u] = <<>> /\ (u \in DOMAIN sessions') = (u \in DOMAIN sessions)

C12_FailureEmitsOneErrorWhileRegistered ==
    [][\A u \in Users : UpdateBufferThrow(u) => C12_Step(u)]_vars

\* C12 witness: the last step emitted the error of a failed call on a live
\* connection that has a session.
C12_Witness ==
    \E u \in Users :
        /\ conn[u] = "live"
        /\ emitted[u] = <<Ev("error")>>
        /\ u \in DOMAIN sessions

\* C13 as stated: after a step in which an updateBuffer call fails, the
\* session's buffer is marked complete.
C13_FailureMarksComplete ==
    [][\A u \in Users : UpdateBufferThrow(u) =>
          (u \in DOMAIN sessions' /\ sessions'[u].buffer.isComplete)]_vars

\* C13 amended: a step in which an updateBuffer call fails leaves isComplete
\* as it was (it does not mark the buffer complete) and leaves the pacer idle
\* or sending as it was.
C13_Step(u) ==
    /\ (u \in DOMAIN sessions') = (u \in DOMAIN sessions)
    /\ u \in DOMAIN sessions => sessions'[u].buffer.isComplete = sessions[u].buffer.isComplete
    /\ sendingTimeouts'[u] = sendingTimeouts[u]

C13_FailureKeepsComplete ==
    [][\A u \in Users : UpdateBufferThrow(u) => C13_Step(u)]_vars

\* C13 witness: the error of a failed call was just emitted and the buffer
\* that was being sent when the regeneration began has unsent blocks and is
\* not complete.
C13_Witness ==
    \E u \in Users :
        /\ emitted[u] = <<Ev("error")>>
        /\ u \in DOMAIN sessions
        /\ sessions[u].buffer.currentIndex \in 1..(Len(sessions[u].buffer.blocks) - 1)
        /\ ~sessions[u].buffer.isComplete

\* C14: a step in which an updateBuffer call fails (backend error or a
\* response failing validation) leaves the session's buffer blocks, cursor
\* and history unchanged, and creates no session.
C14_Step(u) ==
    /\ (u \in DOMAIN sessions') = (u \in DOMAIN sessions)
    /\ u \in DOMAIN sessions =>
          /\ sessions'[u].buffer.blocks = sessions[u].buffer.blocks
          /\ sessions'[u].buffer.currentIndex = sessions[u].buffer.currentIndex
          /\ sessions'[u].history = sessions[u].history

C14_FailureInstallsNothing ==
    [][\A u \in Users : UpdateBufferThrow(u) => C14_Step(u)]_vars

\* C14 witness: the error of a failed call was just emitted while the session
\* holds a buffer with sent blocks and a history.
C14_Witness ==
    \E u \in Users :
        /\ emitted[u] = <<Ev("error")>>
        /\ u \in DOMAIN sessions
        /\ sessions[u].buffer.currentIndex >= 1
        /\ Len(sessions[u].history) >= 2

\* C15: a step in which an updateCheck call settles with NO or with an error
\* leaves needsUpdate false, starts and cancels no timer, leaves the pacer's
\* pending step and the buffer (blocks, cursor, group) as they were and emits
\* nothing, so the pacer's next step does not stop at the interrupt test.
C15_Step(u) ==
    LET old == IF u \in DOMAIN sessions THEN sessions[u].buffer ELSE NewSession.buffer
    IN  /\ u \in DOMAIN sessions'
        /\ ~sessions'[u].updateCheck.needsUpdate
        /\ sessions'[u].buffer = old
        /\ timers' = timers
        /\ timeouts' = timeouts
        /\ sendingTimeouts' = sendingTimeouts
        /\ emitted'[u] = <<>>

C15_NegativeVerdictDisturbsNothing ==
    [][\A u \in Users : \A outcome \in {"NO", "error"} :
          UpdateCheckReturns(u, outcome) => C15_Step(u)]_vars

\* C15 witness: a message arrived while the only buffer ever generated was
\* being sent, its check has returned, no update is needed and the pacer is
\* still sending with blocks left.
C15_Witness ==
    \E u \in Users :
        /\ conn[u] = "live"
        /\ nGen = 1
        /\ nStop = 0
        /\ calls = {}
        /\ u \in DOMAIN sessions
        /\ \E i, j \in 1..Len(sessions[u].history) :
              i < j /\ sessions[u].history[i].role = "model" /\ sessions[u].history[j].role = "user"
        /\ ~sessions[u].updateCheck.needsUpdate
        /\ sendingTimeouts[u] # 0
        /\ sessions[u].buffer.currentIndex < Len(sessions[u].buffer.blocks)

\* C16: in every session the cursor is within 0..len(blocks), and
\* currentGroup is the group of the block at the cursor when the cursor is in
\* range and null otherwise.
C16_CursorAndGroup ==
    \A u \in DOMAIN sessions :
        LET b == sessions[u].buffer
        IN  /\ b.currentIndex \in 0..Len(b.blocks)
            /\ IF b.currentIndex < Len(b.blocks)
               THEN b.currentGroup = b.blocks[b.currentIndex + 1].group /\ b.currentGroup # null
               ELSE b.currentGroup = null

\* C16 witness: the cursor has crossed into the second group of a buffer.
C16_Witness ==
    \E u \in DOMAIN sessions :
        /\ sessions[u].buffer.currentIndex = 2
        /\ Len(sessions[u].buffer.blocks) = 3
        /\ sessions[u].buffer.currentGroup = 2

\* C17 as stated: in every session, a cursor at len(blocks) implies
\* isComplete.
C17_ExhaustedIsComplete ==
    \A u \in DOMAIN sessions :
        sessions[u].buffer.currentIndex = Len(sessions[u].buffer.blocks)
            => sessions[u].buffer.isComplete

\* C17 amended: in every session whose buffer has at least one block, a
\* cursor at len(blocks) implies isComplete.
C17_ExhaustedNonEmptyIsComplete ==
    \A u \in DOMAIN sessions :
        LET b == sessions[u].buffer
        IN  (b.blocks # <<>> /\ b.currentIndex = Len(b.blocks)) => b.isComplete

\* C17 witness: the last block of a three-block buffer has been emitted.
C17_Witness ==
    \E u \in DOMAIN sessions :
        /\ sessions[u].buffer.currentIndex = 3
        /\ Len(sessions[u].buffer.blocks) = 3
        /\ sessions[u].buffer.isComplete

\* C18: a step that leaves a session in place leaves its history entries
\* unchanged and in place: the history before is a prefix of the history after.
C18_HistoryAppendOnly ==
    [][\A u \in Users : (u \in DOMAIN sessions /\ u \in DOMAIN sessions')
          => IsPrefix(sessions[u].history, sessions'[u].history)]_vars

\* C18 witness: a history holding a user message, two blocks and a second
\* user message after them.
C18_Witness ==
    \E u \in DOMAIN sessions :
        LET h == sessions[u].history
        IN  /\ Len(h) >= 4
            /\ h[1].role = "user"
            /\ h[2].role = "model"
            /\ h[3].role = "model"
            /\ h[4].role = "user"

\* C19: the model-role entries a step appends to the history of a session are
\* the texts of the ai_block events the step emits, in the same order; a step
\* after which the connection has no session emits no ai_block.
C19_Step(u) ==
    LET old == History(sessions, u)
        new == History(sessions', u)
    IN  IF u \in DOMAIN sessions'
        THEN ModelTexts(SubSeq(new, Len(old) + 1, Len(new))) = BlockTexts(emitted'[u])
        ELSE BlockTexts(emitted'[u]) = <<>>

C19_HistoryMatchesEmissions == [][\A u \in Users : C19_Step(u)]_vars

\* C19 witness: the last step emitted the second block of the second buffer
\* and the history ends with its text.
C19_Witness ==
    \E u \in DOMAIN sessions :
        LET h == sessions[u].history
        IN  /\ BlockTexts(emitted[u]) = << <<2, 1>> >>
            /\ Len(h) >= 2
            /\ h[Len(h)] = [role |-> "model", content |-> <<2, 1>>]
            /\ h[Len(h) - 1] = [role |-> "model", content |-> <<2, 0>>]

\* C20: for every connection and every timer name at most one timeout is
\* pending, and it is the one TimerManager remembers under that name (a timer
\* replaced by a later one of its name is no longer pending, so it never
\* fires).
C20_AtMostOneTimerPerName ==
    \A u \in Users : \A ty \in TimerTypes :
        /\ Cardinality(Scheduled(u, ty)) <= 1
        /\ \A t \in Scheduled(u, ty) : t.id = timers[u][ty]

\* C20 witness: the typingIdle timer started when the user stopped typing has
\* been replaced by the typingIdle timer of the group-delay flow (only one
\* regeneration ever started and nothing was stopped, so the first timer
\* neither fired nor was cancelled by another path).
C20_Witness ==
    \E u \in DOMAIN sessions :
        /\ conn[u] = "live"
        /\ nGen = 1
        /\ nStop = 0
        /\ sessions[u].typing.shouldUseIdleTimer
        /\ ~sessions[u].typing.isTyping
        /\ \E t \in Scheduled(u, "typingIdle") : t.cb = "idleAfterGroupDelay"

----
\* C21: right after the step that handles stop_ai_response, whatever the
\* state it was received in, the connection has no timer and no pending timer
\* callback, the pacer has no pending step, the session's buffer is marked
\* complete, and the step emitted exactly one event, an ai_complete.
C21_Step(u) ==
    /\ \A ty \in TimerTypes : timers'[u][ty] = 0
    /\ {t \in timeouts' : t.user = u} = {}
    /\ sendingTimeouts'[u] = 0
    /\ u \in DOMAIN sessions'
    /\ sessions'[u].buffer.isComplete
    /\ emitted'[u] = <<Ev("ai_complete")>>

C21_StopLeavesNothingRunning == [][\A u \in Users : Stop(u) => C21_Step(u)]_vars

\* C21 witness: a stop was just handled while the buffer had unsent blocks:
\* the ai_complete was emitted, the session is kept and its buffer is complete
\* with the cursor before the end.
C21_Witness ==
    \E u \in Users :
        /\ nStop = 1
        /\ conn[u] = "live"
        /\ emitted[u] = <<Ev("ai_complete")>>
        /\ u \in DOMAIN sessions
        /\ sessions[u].buffer.isComplete
        /\ sessions[u].buffer.currentIndex \in 1..(Len(sessions[u].buffer.blocks) - 1)
        /\ sendingTimeouts[u] = 0

----
\* The unsent blocks of a connection's buffer in a session store.
Unsent(ss, u) ==
    IF u \in DOMAIN ss
    THEN SubSeq(ss[u].buffer.blocks, ss[u].buffer.currentIndex + 1, Len(ss[u].buffer.blocks))
    ELSE <<>>

\* C22: the interrupt flow of a positive verdict that arrives inside a group.
\* (a) When updateCheck returns YES while blocks of the current group are
\* unsent, the step sets needsUpdate and waitingForGroup and leaves the pacer
\* and the timers alone.  (b) While both flags are set a pacer step emits the
\* block at the cursor; if the group does not change it schedules the next
\* step and keeps waiting, and if it changes the step clears waitingForGroup
\* and starts the groupDelay timer.  (c) A pacer step that finds needsUpdate
\* without waitingForGroup emits nothing and leaves no pacer step pending.
\* (d) The groupDelay callback, the user not typing, starts the typingIdle
\* timer of the flow.  (e) The firing of that timer starts an updateBuffer
\* call whose pendingBlocks are exactly the unsent blocks of the buffer.
C22_Verdict(u) ==
    (u \in DOMAIN sessions /\ ~isCurrentGroupComplete(sessions[u].buffer)) =>
        /\ sessions'[u].updateCheck.needsUpdate
        /\ sessions'[u].updateCheck.waitingForGroup
        /\ sessions'[u].buffer = sessions[u].buffer
        /\ sendingTimeouts' = sendingTimeouts
        /\ timers' = timers
        /\ timeouts' = timeouts
        /\ emitted'[u] = <<>>

C22_Pace(u) ==
    LET b == sessions[u].buffer
        uc == sessions[u].updateCheck
        block == b.blocks[b.currentIndex + 1]
    IN  /\ (uc.needsUpdate /\ uc.waitingForGroup /\ b.currentIndex < Len(b.blocks)) =>
              /\ emitted'[u] = <<[type |-> "ai_block", text |-> block.text, group |-> block.group]>>
              /\ sessions'[u].buffer.currentIndex = b.currentIndex + 1
              /\ IF sessions'[u].buffer.currentGroup = b.currentGroup
                 THEN /\ sessions'[u].updateCheck.waitingForGroup
                      /\ sendingTimeouts'[u] # 0
                      /\ timers'[u]["groupDelay"] = timers[u]["groupDelay"]
                 ELSE /\ ~sessions'[u].updateCheck.waitingForGroup
                      /\ sessions'[u].updateCheck.needsUpdate
                      /\ \E t \in timeouts' : t.id = timers'[u]["groupDelay"] /\ t.user = u /\ t.cb = "groupDelay"
        /\ (uc.needsUpdate /\ ~uc.waitingForGroup) =>
              /\ emitted'[u] = <<>>
              /\ sendingTimeouts'[u] = 0
              /\ PacerChains(u)' = {}
              /\ sessions'[u].buffer = b

C22_Delay(u) ==
    (u \in DOMAIN sessions /\ ~sessions[u].typing.isTyping) =>
        \E t \in timeouts' : t.id = timers'[u]["typingIdle"] /\ t.user = u /\ t.cb = "idleAfterGroupDelay"

C22_Regenerate(u) ==
    /\ Cardinality(Starting(u)) = 1
    /\ \A c \in Starting(u) : c.from = "idleAfterGroupDelay" /\ c.blocks = Unsent(sessions, u)

C22_Step(u) ==
    /\ UpdateCheckReturns(u, "YES") => C22_Verdict(u)
    /\ (SendNextFire(u) /\ conn[u] = "live" /\ u \in DOMAIN sessions) => C22_Pace(u)
    /\ GroupDelayFire(u) => C22_Delay(u)
    /\ GroupIdleFire(u) => C22_Regenerate(u)

C22_InterruptInsideGroup == [][\A u \in Users : C22_Step(u)]_vars

\* C22 witness: of the buffer [a, b in group 1; c in group 2] a was sent, the
\* user's second message came, b was sent, and the regeneration of the flow is
\* in flight with pendingBlocks [c].
C22_Witness ==
    \E u \in Users : \E c \in calls :
        /\ c.user = u /\ c.kind = "updateBuffer" /\ c.from = "idleAfterGroupDelay"
        /\ c.blocks = <<[text |-> <<1, 2>>, group |-> 2]>>
        /\ u \in DOMAIN sessions
        /\ Len(sessions[u].history) = 4
        /\ sessions[u].history[2] = [role |-> "model", content |-> <<1, 0>>]
        /\ sessions[u].history[3].role = "user"
        /\ sessions[u].history[4] = [role |-> "model", content |-> <<1, 1>>]

----
\* C23: typing that starts while the endUpdate timer runs and stops without a
\* message.  (a) typing_status(true) received while the endUpdate timer runs
\* cancels it, clears timerActive, sets shouldUseIdleTimer and starts
\* maxTyping.  (b) shouldUseIdleTimer is cleared only by a user message, by
\* the firing of typingIdle or with the session.  (c) typing_status(false)
\* received with shouldUseIdleTimer set starts the typingIdle timer and leaves
\* no maxTyping timer.  (d) The firing of typingIdle starts an updateBuffer
\* call and leaves userMessagedSinceLastEndUpdate false.  (e) The flag turns
\* true only by a user message, and a pacer step that finds it false starts
\* no endUpdate timer.
C23_Typing(u) ==
    timers[u]["endUpdate"] # 0 =>
        /\ timers'[u]["endUpdate"] = 0
        /\ Scheduled(u, "endUpdate")' = {}
        /\ ~sessions'[u].endUpdate.timerActive
        /\ sessions'[u].typing.shouldUseIdleTimer
        /\ \E t \in timeouts' : t.id = timers'[u]["maxTyping"] /\ t.user = u /\ t.cb = "maxTyping"

C23_Stopped(u) ==
    (u \in DOMAIN sessions /\ sessions[u].typing.shouldUseIdleTimer) =>
        /\ \E t \in timeouts' : t.id = timers'[u]["typingIdle"] /\ t.user = u /\ t.cb = "typingIdle"
        /\ timers'[u]["maxTyping"] = 0
        /\ Scheduled(u, "maxTyping")' = {}

C23_Idle(u) ==
    /\ \E c \in Starting(u) : c.from = "typingIdle"
    /\ ~Messaged(sessions', u)
    /\ ~sessions'[u].typing.shouldUseIdleTimer

C23_Step(u) ==
    /\ TypingStart(u) => C23_Typing(u)
    /\ ( /\ u \in DOMAIN sessions
         /\ sessions[u].typing.shouldUseIdleTimer
         /\ u \in DOMAIN sessions'
         /\ ~sessions'[u].typing.shouldUseIdleTimer )
          => (UserMessage(u) \/ TypingIdleFire(u))
    /\ TypingStop(u) => C23_Stopped(u)
    /\ TypingIdleFire(u) => C23_Idle(u)
    /\ (~Messaged(sessions, u) /\ Messaged(sessions', u)) => UserMessage(u)
    /\ (SendNextFire(u) /\ ~Messaged(sessions, u)) =>
          /\ timers'[u]["endUpdate"] = 0
          /\ Scheduled(u, "endUpdate")' = {}

C23_IdleAfterEndUpdate == [][\A u \in Users : C23_Step(u)]_vars

\* C23 witness: after the only user message and its buffer the user typed
\* while endUpdate was running (nothing else sets shouldUseIdleTimer without
\* a second message) and stopped; typingIdle has fired and its regeneration is
\* in flight with the flag false and no endUpdate timer.
C23_Witness ==
    \E u \in Users : \E c \in calls :
        /\ c.user = u /\ c.kind = "updateBuffer" /\ c.from = "typingIdle"
        /\ nMsg = 1
        /\ nStop = 0
        /\ conn[u] = "live"
        /\ u \in DOMAIN sessions
        /\ Len(sessions[u].history) >= 2
        /\ sessions[u].history[1].role = "user"
        /\ sessions[u].history[2] = [role |-> "model", content |-> <<1, 0>>]
        /\ ~Messaged(sessions, u)
        /\ ~sessions[u].endUpdate.timerActive
        /\ timers[u]["endUpdate"] = 0

----
\* The typing times, in seconds, for which the pacing delay is evaluated.
TypingTimes == 0..3

\* The first message of a session is being answered: the history holds that
\* message and nothing else, on a live connection.
ColdCycle(u) ==
    /\ conn[u] = "live"
    /\ u \in DOMAIN sessions
    /\ Len(sessions[u].history) = 1
    /\ sessions[u].history[1].role = "user"

\* The links of the cold greeting that hold as stated.  The step handling the
\* first user message emits message_received and starts an updateBuffer call
\* with userMessagedSinceLastEndUpdate set; the pacer step that finds the
\* buffer drained emits ai_complete and, the flag being set, starts the
\* endUpdate timer; the firing of endUpdate starts an updateBuffer call.
C24_Rest(u) ==
    /\ (UserMessage(u) /\ u \notin DOMAIN sessions) =>
          /\ emitted'[u] = <<Ev("message_received")>>
          /\ \E c \in Starting(u) : c.from = "userMessage"
          /\ Messaged(sessions', u)
    /\ ( /\ SendNextFire(u)
         /\ conn[u] = "live"
         /\ u \in DOMAIN sessions
         /\ sessions[u].buffer.currentIndex >= Len(sessions[u].buffer.blocks)
         /\ ~sessions[u].updateCheck.needsUpdate ) =>
          /\ emitted'[u] = <<Ev("ai_complete")>>
          /\ sendingTimeouts'[u] = 0
          /\ Messaged(sessions, u) =>
                /\ sessions'[u].endUpdate.timerActive
                /\ \E t \in timeouts' : t.id = timers'[u]["endUpdate"] /\ t.user = u /\ t.cb = "endUpdate"
    /\ EndUpdateFire(u) => \E c \in Starting(u) : c.from = "endUpdate"
    /\ \A tt \in TypingTimes : delay(tt) >= 1000 /\ delay(tt) >= tt * 1000

\* C24 as stated: the step in which updateBuffer returns the single block of
\* the cold greeting emits no ai_block (the block comes only with the pacing
\* timeout that the step schedules), and the rest of the order holds.
C24_BlockAfterDelay ==
    [][\A u \in Users :
          /\ (UpdateBufferReturn(u) /\ ColdCycle(u) /\ Len(sessions'[u].buffer.blocks) = 1) =>
                (AiBlocks(emitted'[u]) = {} /\ PacerChains(u)' # {})
          /\ C24_Rest(u)]_vars

\* C24 amended: the step in which updateBuffer returns the single block of
\* the cold greeting emits that block at once, records it in the history and
\* schedules the pacer's next step after the block's pacing delay (at least
\* 1 s); that next step emits ai_complete; the rest of the order holds.
C24_Install(u) ==
    (UpdateBufferReturn(u) /\ ColdCycle(u) /\ Len(sessions'[u].buffer.blocks) = 1) =>
        LET block == sessions'[u].buffer.blocks[1]
        IN  /\ emitted'[u] = <<[type |-> "ai_block", text |-> block.text, group |-> block.group]>>
            /\ sessions'[u].history = Append(sessions[u].history, [role |-> "model", content |-> block.text])
            /\ sessions'[u].buffer.currentIndex = 1
            /\ \E t \in timeouts' : t.id = sendingTimeouts'[u] /\ t.user = u /\ t.cb = "sendNext"

C24_BlockThenDelay == [][\A u \in Users : C24_Install(u) /\ C24_Rest(u)]_vars

\* C24 witness: one message, the single block of its buffer and nothing else
\* in the history, the buffer drained, and the regeneration of the endUpdate
\* firing in flight.
C24_Witness ==
    \E u \in Users : \E c \in calls :
        /\ c.user = u /\ c.kind = "updateBuffer" /\ c.from = "endUpdate"
        /\ nMsg = 1
        /\ nStop = 0
        /\ u \in DOMAIN sessions
        /\ sessions[u].history = <<[role |-> "user", content |-> 1], [role |-> "model", content |-> <<1, 0>>]>>
        /\ Len(sessions[u].buffer.blocks) = 1
        /\ sessions[u].buffer.isComplete

----
\* The state after typing_status(true), typing_status(false) and
\* typing_status(true) are handled one after the other from the current state.
TypedStoppedTyped(u) ==
    handleTypingStatus(handleTypingStatus(handleTypingStatus(State, u, TRUE), u, FALSE), u, TRUE)

\* The timers of u that are active in state st: remembered by TimerManager or
\* pending in the event loop.
ActiveTimers(st, u) ==
    {ty \in TimerTypes : st.timers[u][ty] # 0 \/ \E t \in st.timeouts : t.user = u /\ t.timerType = ty}

\* C25: from every reachable state of a live connection, handling
\* typing_status(true), typing_status(false), typing_status(true) in a row
\* leaves maxTyping as the only active timer, with its callback pending.
C25_OnlyMaxTypingLeft ==
    \A u \in Users :
        conn[u] = "live" =>
            LET s == TypedStoppedTyped(u)
            IN  /\ ActiveTimers(s, u) = {"maxTyping"}
                /\ \E t \in s.timeouts : t.id = s.timers[u]["maxTyping"] /\ t.user = u /\ t.cb = "maxTyping"

\* C25 witness: the endUpdate timer is running; the first event cancels it,
\* the second starts typingIdle, and the third cancels typingIdle again.
C25_Witness ==
    \E u \in Users :
        /\ conn[u] = "live"
        /\ timers[u]["endUpdate"] # 0
        /\ "typingIdle" \in ActiveTimers(handleTypingStatus(handleTypingStatus(State, u, TRUE), u, FALSE), u)
        /\ ActiveTimers(TypedStoppedTyped(u), u) = {"maxTyping"}

----
\* The state after startSendingBuffer, and after startSendingBuffer directly
\* followed by stopSending, called from the current state.
Started(u) == startSendingBuffer(State, u)
StartedStopped(u) == stopSending(Started(u), u)

\* C26 as stated: from every reachable state of a live connection,
\* startSendingBuffer directly followed by stopSending emits nothing and runs
\* no callback (no timer is started).
C26_StartStopSilent ==
    \A u \in Users :
        conn[u] = "live" =>
            /\ StartedStopped(u).emitted[u] = <<>>
            /\ StartedStopped(u).timers = timers

\* C26 amended: from every reachable state of a live connection,
\* startSendingBuffer directly followed by stopSending leaves no pacer step
\* pending, and what reaches the client is what the first emission step of
\* the start emits: nothing when the interrupt is requested, the block at the
\* cursor when one is unsent, and otherwise the ai_complete of
\* onBufferComplete (nothing without a registered socket); stopSending itself
\* emits nothing and touches neither timers nor session.
C26_StartStopEmitsFirstStep ==
    \A u \in Users :
        conn[u] = "live" =>
            LET s0 == getSession(State, u)
                b == s0.sessions[u].buffer
                uc == s0.sessions[u].updateCheck
                s1 == Started(u)
                s == StartedStopped(u)
            IN  /\ s.sendingTimeouts[u] = 0
                /\ {t \in s.timeouts : t.user = u /\ t.timerType = "sendNext"} = {}
                /\ s.emitted = s1.emitted
                /\ s.timers = s1.timers
                /\ s.sessions = s1.sessions
                /\ s.emitted[u] =
                      IF uc.needsUpdate /\ ~uc.waitingForGroup THEN <<>>
                      ELSE IF b.currentIndex < Len(b.blocks)
                      THEN <<[type |-> "ai_block", text |-> b.blocks[b.currentIndex + 1].text,
                              group |-> b.blocks[b.currentIndex + 1].group]>>
                      ELSE IF getSocket(State, u) THEN <<Ev("ai_complete")>> ELSE <<>>

\* C26 witness: a state with a pending pacer step and unsent blocks, from
\* which the start emits a block and the stop cancels the step it scheduled.
C26_Witness ==
    \E u \in Users :
        /\ conn[u] = "live"
        /\ sendingTimeouts[u] # 0
        /\ AiBlocks(StartedStopped(u).emitted[u]) # {}
        /\ Started(u).sendingTimeouts[u] # 0
        /\ StartedStopped(u).sendingTimeouts[u] = 0

----
\* C27: from every reachable state, the state after two stopSending calls in
\* a row equals the state after one; the calls emit nothing and change
\* neither timers nor sessions (no callback runs), and no pacer step is
\* pending afterwards.
C27_StopTwiceIsStopOnce ==
    \A u \in Users :
        LET s1 == stopSending(State, u)
            s2 == stopSending(s1, u)
        IN  /\ s1.emitted[u] = <<>>
            /\ s2.emitted[u] = <<>>
            /\ s2.timers = timers
            /\ s2.sessions = sessions
            /\ s2.sendingTimeouts[u] = 0
            /\ s2 = s1
            /\ {t \in s2.timeouts : t.user = u /\ t.timerType = "sendNext"} = {}

\* C27 witness: a pacer step is pending, so that the first stopSending
\* changes the state and the second finds nothing to cancel.
C27_Witness ==
    \E u \in Users :
        /\ PacerChains(u) # {}
        /\ stopSending(State, u) # State
        /\ stopSending(stopSending(State, u), u) = stopSending(State, u)

----
\* The events the server sends about a response.
ResponseEvents == {"ai_block", "ai_complete", "error"}

\* The state after the pacer's pending step t has run with the channel of u
\* no longer connected and the disconnect handler not yet run.
DeadStep(u, t) == _sendNextBlock(Fired([State EXCEPT !.conn[u] = "closed"], t), u)

----
\* A step leaves everything of connection b as it was and emits nothing on it.
Untouched(b) ==
    /\ conn'[b] = conn[b]
    /\ (b \in userSockets') = (b \in userSockets)
    /\ (b \in DOMAIN sessions') = (b \in DOMAIN sessions)
    /\ b \in DOMAIN sessions => sessions'[b] = sessions[b]
    /\ timers'[b] = timers[b]
    /\ sendingTimeouts'[b] = sendingTimeouts[b]
    /\ {t \in timeouts' : t.user = b} = {t \in timeouts : t.user = b}
    /\ {c \in calls' : c.user = b} = {c \in calls : c.user = b}
    /\ emitted'[b] = <<>>

----
\* C30: (a) right after the step in which an updateBuffer call starts, the
\* connection has no timer, no pending timer callback and no pending pacer
\* step, and the pendingBlocks given to the call are the unsent blocks of the
\* buffer, the cursor being where the stopped pacer left it.  (b) In the step
\* in which the call returns blocks, the socket being registered, the pacer
\* starts on the new buffer: it emits the first block of the returned buffer
\* and schedules its next step, or emits ai_complete when the returned buffer
\* is empty; the session holds the returned blocks.
C30_Invoke(u) ==
    /\ \A ty \in TimerTypes : timers'[u][ty] = 0
    /\ {t \in timeouts' : t.user = u} = {}
    /\ sendingTimeouts'[u] = 0
    /\ \A c \in Starting(u) :
          /\ c.blocks = Unsent(sessions', u)
          /\ c.blocks = Unsent(sessions, u)

C30_Install(u) ==
    \E c \in Returning(u) :
        LET b == sessions'[u].buffer
        IN  /\ \A i \in 1..Len(b.blocks) : b.blocks[i].text = <<c.id, i - 1>>
            /\ IF b.blocks = <<>>
               THEN emitted'[u] = <<Ev("ai_complete")>> /\ sendingTimeouts'[u] = 0
               ELSE /\ emitted'[u] = <<[type |-> "ai_block", text |-> <<c.id, 0>>, group |-> b.blocks[1].group]>>
                    /\ b.currentIndex = 1
                    /\ \E t \in timeouts' : t.id = sendingTimeouts'[u] /\ t.user = u /\ t.cb = "sendNext"

C30_Step(u) ==
    /\ Starting(u) # {} => C30_Invoke(u)
    /\ (UpdateBufferReturn(u) /\ getSocket(State, u)) => C30_Install(u)

C30_CancelThenGenerateThenInstall == [][\A u \in Users : C30_Step(u)]_vars

\* C30 witness: the maxTyping timer fired while a buffer was being sent; its
\* updateBuffer call is the only call in flight, it carries the unsent blocks,
\* and neither a timer nor a pacer step is left.
C30_Witness ==
    \E u \in Users : \E c \in calls :
        /\ calls = {c}
        /\ c.user = u /\ c.kind = "updateBuffer" /\ c.from = "maxTyping"
        /\ nStop = 0
        /\ conn[u] = "live"
        /\ c.blocks # <<>>
        /\ c.blocks = Unsent(sessions, u)
        /\ sessions[u].buffer.currentIndex >= 1
        /\ sendingTimeouts[u] = 0
        /\ \A ty \in TimerTypes : timers[u][ty] = 0

----
\* C31: the backend requests of one updateBuffer call.

\* The kinds of outcome of a backend request.
Unavailable(o) == o.thrown /\ ~o.error.blocked /\ o.error.message \cap {"503", "429"} # {}
ContentBlocked(o) == o.error.blocked
EmptyAnswer(o) == ~o.thrown /\ ~o.error.blocked /\ o.text = ""
Malformed(o) == ~o.thrown /\ o.text \in {"json", "prose"}
Success(o) == ~o.thrown /\ o.text = "blocks"

\* The requests of the call that were followed by another attempt.
Retried ==
    {i \in 1..Len(retry.requests) : i < Len(retry.requests) \/ retry.status = "sleeping"}

\* The error the loop holds for a failed request.
ErrorOf(o) == IF o.thrown THEN o.error ELSE Error({"empty response"}, FALSE)

C31_Bounded == Len(retry.requests) <= retry.maxAttempts

C31_FirstSuccessReturns ==
    /\ \A i \in Retried : ~Success(retry.requests[i])
    /\ retry.status = "returned" => Success(retry.requests[Len(retry.requests)])

C31_LastErrorThrown ==
    ( /\ retry.status = "thrown"
      /\ retry.requests # <<>>
      /\ LET last == retry.requests[Len(retry.requests)]
         IN  Unavailable(last) \/ EmptyAnswer(last) )
        => ( /\ Len(retry.requests) = retry.maxAttempts
             /\ retry.error = ErrorOf(retry.requests[Len(retry.requests)]) )

C31_Terminates == (retry.status = "requesting") ~> (retry.status \in {"returned", "thrown"})

----
\* C32: the state a user_message leaves behind.

C32_Step(u) ==
    /\ u \in DOMAIN sessions'
    /\ sessions'[u].history # <<>>
    /\ sessions'[u].history[Len(sessions'[u].history)] = [role |-> "user", content |-> nMsg']
    /\ sessions'[u].endUpdate.userMessagedSinceLastEndUpdate
    /\ ~sessions'[u].typing.isTyping
    /\ ~sessions'[u].typing.shouldUseIdleTimer
    /\ ~sessions'[u].endUpdate.timerActive
    /\ \A ty \in {"typingIdle", "maxTyping", "endUpdate"} :
          timers'[u][ty] = 0 /\ Scheduled(u, ty)' = {}

\* C32: when the handler of a user_message reaches the LLM call it awaits,
\* whatever the state it started from, the message is the last entry of the
\* history, userMessagedSinceLastEndUpdate is set, isTyping,
\* shouldUseIdleTimer and endUpdate.timerActive are clear, and no typingIdle,
\* maxTyping or endUpdate timer is active or pending.
C32_AfterUserMessage == [][\A u \in Users : UserMessage(u) => C32_Step(u)]_vars

\* The second message has just been handled, after a response was sent.
C32_Witness ==
    \E u \in Users :
        /\ nMsg = 2
        /\ emitted[u] = <<Ev("message_received")>>
        /\ u \in DOMAIN sessions
        /\ Len(sessions[u].history) >= 3
        /\ sessions[u].history[Len(sessions[u].history)] = [role |-> "user", content |-> 2]
        /\ sessions[u].history[Len(sessions[u].history) - 1].role = "model"
        /\ Messaged(sessions, u)
        /\ ~sessions[u].typing.isTyping
        /\ ~sessions[u].typing.shouldUseIdleTimer
        /\ ~sessions[u].endUpdate.timerActive
        /\ \A ty \in {"typingIdle", "maxTyping", "endUpdate"} : timers[u][ty] = 0

----
\* C33: what sets shouldUseIdleTimer.

\* shouldUseIdleTimer of connection u in the sessions ss.
UsesIdleTimer(ss, u) == u \in DOMAIN ss /\ ss[u].typing.shouldUseIdleTimer

\* C33: shouldUseIdleTimer becomes true only in a typing_status(true) step
\* taken while an endUpdate timer is scheduled, or in a firing of groupDelay
\* while the user is typing.
C33_IdleTimerGated ==
    [][\A u \in Users :
        (UsesIdleTimer(sessions', u) /\ ~UsesIdleTimer(sessions, u)) =>
            \/ TypingStart(u) /\ timers[u]["endUpdate"] # 0 /\ Scheduled(u, "endUpdate") # {}
            \/ GroupDelayFire(u) /\ sessions[u].typing.isTyping]_vars

----
\* C34: the end of a buffer whose last block completes the awaited group.

\* The pacer is about to emit the last block of u's buffer on a live channel
\* while a positive verdict waits for the group to complete.
LastBlockAwaited(u) ==
    /\ connected(State, u)
    /\ u \in DOMAIN sessions
    /\ sessions[u].updateCheck.needsUpdate
    /\ sessions[u].updateCheck.waitingForGroup
    /\ ~sessions[u].buffer.isPaused
    /\ sessions[u].buffer.currentIndex + 1 = Len(sessions[u].buffer.blocks)

\* The pacer steps pending for u in state st.
PacerSteps(st, u) == {t \in st.timeouts : t.user = u /\ t.cb = "sendNext"}

\* C34: when the pacer emits the last block of a buffer while needsUpdate and
\* waitingForGroup are set, the step calls onGroupComplete for the final group
\* (waitingForGroup is cleared and groupDelay started) and schedules a next
\* step, and that next step runs onBufferComplete: it emits ai_complete.
C34_BufferCompleteHandlesEnd ==
    \A u \in Users : \A t \in PacerSteps(State, u) :
        LastBlockAwaited(u) =>
            LET s1 == _sendNextBlock(Fired(State, t), u)
            IN  /\ AiBlocks(s1.emitted[u]) # {}
                /\ ~s1.sessions[u].updateCheck.waitingForGroup
                /\ s1.timers[u]["groupDelay"] # 0
                /\ PacerSteps(s1, u) # {}
                /\ \A t2 \in PacerSteps(s1, u) :
                      LET s2 == _sendNextBlock(Fired([s1 EXCEPT !.emitted = [v \in Users |-> <<>>]], t2), u)
                      IN  \E i \in 1..Len(s2.emitted[u]) : s2.emitted[u][i].type = "ai_complete"

----
\* C35: a positive verdict leads to a regeneration.

\* Connection u rests on an interrupted buffer: a positive verdict stands,
\* blocks are unsent, and neither a pacer step, a timer nor an LLM call is
\* pending that could go on.
Stranded(u) ==
    /\ conn[u] = "live"
    /\ u \in DOMAIN sessions
    /\ sessions[u].updateCheck.needsUpdate
    /\ Unsent(sessions, u) # <<>>
    /\ PacerChains(u) = {}
    /\ sendingTimeouts[u] = 0
    /\ \A ty \in TimerTypes : timers[u][ty] = 0
    /\ {t \in timeouts : t.user = u} = {}
    /\ {c \in calls : c.user = u} = {}

\* C35: without stop_ai_response, end_chat and disconnect, a connection never
\* rests with a positive verdict standing, the pacer halted, unsent blocks
\* pending and no timer active (so that the regeneration the verdict asked
\* for is still to come), also when the user starts and stops typing without
\* sending a message during the groupDelay or typingIdle wait.
C35_NeverStranded == \A u \in Users : ~Stranded(u)

----
\* C36: a verdict and the buffer it was computed for.

\* The updateCheck call c was made for a buffer that is no longer the buffer
\* of u's session.
Stale(c, u) == u \in DOMAIN sessions /\ c.blocks # sessions[u].buffer.blocks

\* C36: a relevance verdict that returns after its buffer was replaced does
\* not touch the new buffer: it sets neither needsUpdate nor waitingForGroup,
\* does not stop the pacer and starts no groupDelay.
C36_VerdictForOwnBuffer ==
    [][\A u \in Users : \A c \in Checked(u) :
        Stale(c, u) =>
            /\ u \in DOMAIN sessions'
            /\ sessions'[u].updateCheck.needsUpdate => sessions[u].updateCheck.needsUpdate
            /\ sessions'[u].updateCheck.waitingForGroup => sessions[u].updateCheck.waitingForGroup
            /\ sendingTimeouts'[u] = sendingTimeouts[u]
            /\ timers'[u]["groupDelay"] = timers[u]["groupDelay"]]_vars

----
\* C37: the LLM calls in flight when stop_ai_response is handled.

\* The state after stop_ai_response was handled for u, as the next step of the
\* event loop finds it.
Stopped(u) == [stopAIResponse(State, u) EXCEPT !.emitted = [v \in Users |-> <<>>]]

\* State st holds nothing that goes on for u by itself: no pacer step, no
\* timer, no pending callback and no updateBuffer call.
Quiet(st, u) ==
    /\ st.sendingTimeouts[u] = 0
    /\ \A ty \in TimerTypes : st.timers[u][ty] = 0
    /\ {t \in st.timeouts : t.user = u} = {}
    /\ {c \in st.calls : c.user = u /\ c.kind = "updateBuffer"} = {}

\* C37: when stop_ai_response is handled while an updateBuffer or updateCheck
\* call is in flight and the call settles before any other client event, the
\* settling step emits no ai_block and leaves neither a pacer step nor a timer
\* nor a regeneration behind.
C37_NothingAfterStop ==
    \A u \in Users : \A c \in calls :
        (conn[u] = "live" /\ c.user = u) =>
            /\ c.kind = "updateBuffer" =>
                  \A shape \in BufferShapes :
                      LET s2 == updateBufferInstalled(Returned(Stopped(u), c), u, BlocksOf(c.id, shape))
                      IN  AiBlocks(s2.emitted[u]) = {} /\ Quiet(s2, u)
            /\ c.kind = "updateCheck" =>
                  \A outcome \in CheckOutcomes :
                      LET s2 == updateCheckDone(Returned(Stopped(u), c), u, updateCheck(outcome))
                      IN  AiBlocks(s2.emitted[u]) = {} /\ Quiet(s2, u)

----
\* C38: the endUpdate flag of the session and the endUpdate timer.

\* C38: in every state and for every connection, endUpdate.timerActive is
\* true exactly when an endUpdate timer is registered in the TimerManager and
\* pending in the event loop.
C38_FlagMirrorsTimer ==
    \A u \in Users :
        (u \in DOMAIN sessions /\ sessions[u].endUpdate.timerActive)
            <=> (timers[u]["endUpdate"] # 0 /\ Scheduled(u, "endUpdate") # {})

----
\* C39: the updateBuffer calls in flight.

\* The updateBuffer calls of connection u that are in flight.
Generating(u) == {c \in calls : c.user = u /\ c.kind = "updateBuffer"}

\* C39: at most one updateBuffer call per connection is in flight.
C39_OneGenerationInFlight == \A u \in Users : Cardinality(Generating(u)) <= 1

----
\* C40: the pendingBlocks of the call whose result is installed.

\* C40: in a step in which a returning updateBuffer call installs its blocks,
\* the pendingBlocks the call was made with are the unsent blocks of the
\* buffer it replaces.
C40_SnapshotIsUnsentSuffix ==
    [][\A u \in Users : \A c \in Returning(u) :
        (u \in DOMAIN sessions' /\ BufferId(State', u) = c.id) =>
            c.blocks = Unsent(sessions, u)]_vars

====
